---- MODULE Spec2Model ----
(***************************************************************************)
(* Model of the Ganesha voice chatbot backend: the language resolution     *)
(* functions (services/asr.py, services/llm.py), the synthesis front end   *)
(* (services/tts.py) and the two exchange handlers voice_chat and          *)
(* text_chat (main.py).                                                    *)
(*                                                                         *)
(* Texts are sequences of Unicode code points.  A language code is a       *)
(* string; Python's None is the string "None"; an exception that leaves a  *)
(* function is the value "RAISED".                                         *)
(***************************************************************************)
EXTENDS Integers, Sequences, FiniteSets, TLC

\* Longest text drawn as an input of the language functions.
MaxLen == 2

(***************************************************************************)
(* Configuration tables                                                    *)
(***************************************************************************)

\* The keys of settings.SUPPORTED_LANGUAGES.
SUPPORTED_LANGUAGES ==
    {"hi", "en", "ta", "te", "kn", "ml", "bn", "mr", "gu", "pa", "or", "as", "ur"}

\* The keys of TTSService.language_mapping (the value of each key is the key).
language_mapping ==
    {"en", "hi", "ta", "te", "kn", "ml", "bn", "mr", "gu", "pa", "ur"}

(***************************************************************************)
(* Text helpers (Python str methods used by the code)                      *)
(***************************************************************************)

\* c is a whitespace character for str.strip()/str.split().
IsSpace(c) == c \in {32, 9, 10, 13}

\* str.lower() on one code point (the cased characters of the inputs drawn
\* here are the ASCII letters; the Indic blocks have no case).
LowerChar(c) == IF c >= 65 /\ c <= 90 THEN c + 32 ELSE c

Lower(s) == [i \in 1..Len(s) |-> LowerChar(s[i])]

RECURSIVE LStrip(_)
LStrip(s) == IF s # <<>> /\ IsSpace(Head(s)) THEN LStrip(Tail(s)) ELSE s

RECURSIVE RStrip(_)
RStrip(s) ==
    IF s # <<>> /\ IsSpace(s[Len(s)]) THEN RStrip(SubSeq(s, 1, Len(s) - 1)) ELSE s

\* str.strip()
Strip(s) == RStrip(LStrip(s))

\* Python's `w in s` for strings.
Contains(s, w) ==
    \E i \in 1..(Len(s) - Len(w) + 1) : SubSeq(s, i, i + Len(w) - 1) = w

\* any(lo <= ord(char) <= hi for char in s)
AnyInRange(s, lo, hi) == \E i \in 1..Len(s) : s[i] >= lo /\ s[i] <= hi

\* sum(ord(c) > 127 for c in s)
RECURSIVE NonAscii(_)
NonAscii(s) ==
    IF s = <<>> THEN 0
    ELSE (IF Head(s) > 127 THEN 1 ELSE 0) + NonAscii(Tail(s))

(***************************************************************************)
(* GaneshaLLMService.detect_language_fast                                  *)
(***************************************************************************)

\* The Hindi marker words of the Devanagari branch.
HindiMarkers ==
    { <<2361, 2376>>, <<2361, 2376, 2306>>, <<2325, 2366>>, <<2325, 2368>>,
      <<2325, 2379>>, <<2350, 2375, 2306>>, <<2360, 2375>>,
      <<2327, 2339, 2375, 2358>>, <<2349, 2327, 2357, 2366, 2344>> }

\* The Marathi marker words of the Devanagari branch.
MarathiMarkers ==
    { <<2310, 2361, 2375>>, <<2310, 2361, 2375, 2340>>, <<2330, 2366>>,
      <<2330, 2368>>, <<2330, 2381, 2351, 2366>>,
      <<2327, 2339, 2346, 2340, 2368>> }

\* A plausible slip: the script of the first character that lies in a
\* known block decides, instead of the fixed order of the tests.
DetectByFirstCharacter(text0) ==
    LET text == Strip(Lower(text0))
        known == {i \in 1..Len(text) :
                     (text[i] >= 2304 /\ text[i] <= 2559)
                         \/ (text[i] >= 2944 /\ text[i] <= 3455)}
    IN  IF known = {} THEN "en"
        ELSE LET c == text[CHOOSE i \in known : \A j \in known : i <= j]
             IN  IF c <= 2431
                 THEN IF \E w \in HindiMarkers : Contains(text, w) THEN "hi"
                      ELSE IF \E w \in MarathiMarkers : Contains(text, w) THEN "mr"
                      ELSE "hi"
                 ELSE IF c <= 2559 THEN "bn"
                 ELSE IF c <= 3071 THEN "ta"
                 ELSE IF c <= 3199 THEN "te"
                 ELSE IF c <= 3327 THEN "kn"
                 ELSE "ml"

\* A plausible slip: the Marathi markers are tested before the Hindi ones.
DetectMarathiFirst(text0) ==
    LET text == Strip(Lower(text0))
    IN  IF AnyInRange(text, 2304, 2431)
        THEN IF \E w \in MarathiMarkers : Contains(text, w) THEN "mr"
             ELSE "hi"
        ELSE IF AnyInRange(text, 2944, 3071) THEN "ta"
        ELSE IF AnyInRange(text, 3072, 3199) THEN "te"
        ELSE IF AnyInRange(text, 3200, 3327) THEN "kn"
        ELSE IF AnyInRange(text, 3328, 3455) THEN "ml"
        ELSE IF AnyInRange(text, 2432, 2559) THEN "bn"
        ELSE "en"

detect_language_fast(text0) ==
    LET text == Strip(Lower(text0))
    IN  IF AnyInRange(text, 2304, 2431)
        THEN IF \E w \in HindiMarkers : Contains(text, w) THEN "hi"
             ELSE IF \E w \in MarathiMarkers : Contains(text, w) THEN "mr"
             ELSE "hi"
        ELSE IF AnyInRange(text, 2944, 3071) THEN "ta"
        ELSE IF AnyInRange(text, 3072, 3199) THEN "te"
        ELSE IF AnyInRange(text, 3200, 3327) THEN "kn"
        ELSE IF AnyInRange(text, 3328, 3455) THEN "ml"
        ELSE IF AnyInRange(text, 2432, 2559) THEN "bn"
        ELSE "en"

(***************************************************************************)
(* ASRService._transliterate_if_needed                                     *)
(***************************************************************************)

\* The target scripts tried in order, each named by the first code point of
\* its Unicode block: devanagari, bengali, tamil, telugu, kannada,
\* malayalam, gujarati, oriya, punjabi.
TargetScripts == <<2304, 2432, 2944, 3072, 3200, 3328, 2688, 2816, 2560>>

\* What the conversion library does on a call; the library is an external
\* collaborator, so its behaviour is an input: it throws, it converts
\* nothing, it converts every ASCII letter to a letter of the script, or
\* its schemes differ ("uneven": the first scheme renders every ASCII
\* letter by one letter of the script, the others render the letter a by
\* a letter and a vowel sign and pass the letters they lack through).
LibModes == {"raise", "identity", "native", "uneven"}

IsAsciiLetter(c) == (c >= 65 /\ c <= 90) \/ (c >= 97 /\ c <= 122)

\* transliterate(text, "itrans", script) under library behaviour lib
\* (lib # "raise").
RECURSIVE UnevenScheme(_, _)
UnevenScheme(text, script) ==
    IF text = <<>> THEN <<>>
    ELSE (IF Head(text) = 97 THEN <<script + 21, script + 62>> ELSE <<Head(text)>>)
             \o UnevenScheme(Tail(text), script)

transliterate(text, script, lib) ==
    IF lib = "native" \/ (lib = "uneven" /\ script = TargetScripts[1])
    THEN [i \in 1..Len(text) |->
             IF IsAsciiLetter(text[i]) THEN script + 21 ELSE text[i]]
    ELSE IF lib = "uneven" THEN UnevenScheme(text, script)
    ELSE text

\* A plausible slip: >= in the comparison, so that the last of the
\* candidates with the most non-ASCII characters is kept.
RECURSIVE BestNativeLastWins(_, _, _, _)
BestNativeLastWins(text, lib, k, best) ==
    IF k > Len(TargetScripts) THEN best
    ELSE LET native == transliterate(text, TargetScripts[k], lib)
             non_ascii == NonAscii(native)
         IN  IF non_ascii >= best[2]
             THEN BestNativeLastWins(text, lib, k + 1, <<native, non_ascii>>)
             ELSE BestNativeLastWins(text, lib, k + 1, best)

\* The for loop over the scripts: best is <<best_native, max_non_ascii>>.
RECURSIVE BestNative(_, _, _, _)
BestNative(text, lib, k, best) ==
    IF k > Len(TargetScripts) THEN best
    ELSE LET native == transliterate(text, TargetScripts[k], lib)
             non_ascii == NonAscii(native)
         IN  IF non_ascii > best[2]
             THEN BestNative(text, lib, k + 1, <<native, non_ascii>>)
             ELSE BestNative(text, lib, k + 1, best)

_transliterate_if_needed(text, lib) ==
    IF lib = "raise" THEN text
    ELSE LET best == BestNative(text, lib, 1, <<text, 0>>)
         IN  \* max_non_ascii > 0.2 * len(best_native)
             IF 10 * best[2] > 2 * Len(best[1]) THEN best[1] ELSE text

(***************************************************************************)
(* ASRService._enhance_language_detection                                  *)
(***************************************************************************)

\* A probability dict argument: its items are <<language, percent>> pairs;
\* comparable = FALSE is a dict whose values max() cannot order (TypeError).
\* None and the empty dict are both the falsy NoProbs.
NoProbs == [items |-> {}, comparable |-> TRUE]

ProbDicts ==
    { NoProbs,
      [items |-> {<<"hi", 90>>, <<"fr", 10>>}, comparable |-> TRUE],
      [items |-> {<<"fr", 90>>, <<"hi", 10>>}, comparable |-> TRUE],
      [items |-> {<<"ta", 50>>, <<"fr", 40>>}, comparable |-> FALSE] }

Truthy(probs) == probs.items # {}

\* max(probs.items(), key=lambda x: x[1]) raises on values it cannot order.
MaxRaises(probs) == ~probs.comparable /\ Cardinality(probs.items) > 1

\* max(probs.items(), key=lambda x: x[1])[0]
BestKey(probs) ==
    (CHOOSE it \in probs.items : \A o \in probs.items : o[2] <= it[2])[1]

\* The verdicts of langdetect.detect(): a language code, or "RAISED" for
\* LangDetectException; langdetect knows languages outside the allowlist.
DetectVerdicts == {"RAISED", "en", "hi", "ur", "fr", "so"}

\* A plausible slip: the chain ends at Hindi instead of English.
LangdetectStageDefaultHindi(text_for_detection, langdetect_probs, det) ==
    IF Truthy(langdetect_probs)
    THEN IF MaxRaises(langdetect_probs) THEN "RAISED"
         ELSE IF BestKey(langdetect_probs) \in SUPPORTED_LANGUAGES
              THEN BestKey(langdetect_probs)
              ELSE "hi"
    ELSE IF det # "RAISED" /\ det \in SUPPORTED_LANGUAGES THEN det ELSE "hi"

\* A plausible slip: the statistical verdict is returned without the
\* allowlist test.
LangdetectStageUnchecked(text_for_detection, langdetect_probs, det) ==
    IF Truthy(langdetect_probs)
    THEN IF MaxRaises(langdetect_probs) THEN "RAISED"
         ELSE BestKey(langdetect_probs)
    ELSE IF det # "RAISED" THEN det ELSE "en"

\* Lines 133-149: the langdetect stage and the English fallback.
LangdetectStage(text_for_detection, langdetect_probs, det) ==
    IF Truthy(langdetect_probs)
    THEN IF MaxRaises(langdetect_probs) THEN "RAISED"
         ELSE IF BestKey(langdetect_probs) \in SUPPORTED_LANGUAGES
              THEN BestKey(langdetect_probs)
              ELSE "en"
    ELSE IF det # "RAISED" /\ det \in SUPPORTED_LANGUAGES THEN det ELSE "en"

\* A plausible slip: the statistical detector is asked before the
\* recognizer's language is trusted.
EnhanceTryDetectorFirst(text, whisper_lang, whisper_probs, langdetect_probs, lib, det) ==
    IF det # "RAISED" /\ det \in SUPPORTED_LANGUAGES THEN det
    ELSE IF Truthy(whisper_probs)
    THEN IF MaxRaises(whisper_probs) THEN "RAISED"
         ELSE IF BestKey(whisper_probs) \in SUPPORTED_LANGUAGES
              THEN BestKey(whisper_probs)
              ELSE "en"
    ELSE IF whisper_lang \in SUPPORTED_LANGUAGES THEN whisper_lang
    ELSE "en"

\* Lines 120-149: the body of the try block; "RAISED" when it throws.
EnhanceTry(text, whisper_lang, whisper_probs, langdetect_probs, lib, det) ==
    LET transliterated_text == _transliterate_if_needed(text, lib)
        text_for_detection ==
            IF transliterated_text # text THEN transliterated_text ELSE text
    IN  IF Truthy(whisper_probs)
        THEN IF MaxRaises(whisper_probs) THEN "RAISED"
             ELSE IF BestKey(whisper_probs) \in SUPPORTED_LANGUAGES
                  THEN BestKey(whisper_probs)
                  ELSE LangdetectStage(text_for_detection, langdetect_probs, det)
        ELSE IF whisper_lang \in SUPPORTED_LANGUAGES THEN whisper_lang
        ELSE LangdetectStage(text_for_detection, langdetect_probs, det)

_enhance_language_detection(text, whisper_lang, whisper_probs, langdetect_probs, lib, det) ==
    LET r == EnhanceTry(text, whisper_lang, whisper_probs, langdetect_probs, lib, det)
    IN  IF r # "RAISED" THEN r
        ELSE IF whisper_lang \in SUPPORTED_LANGUAGES THEN whisper_lang
        ELSE "en"

(***************************************************************************)
(* GaneshaLLMService: _clean_response, _get_fallback_response,             *)
(* get_response                                                            *)
(***************************************************************************)

\* re.sub(r'\s+', ' ', s): every run of whitespace becomes one space.
RECURSIVE CollapseSpaces(_)
CollapseSpaces(s) ==
    IF s = <<>> THEN <<>>
    ELSE IF IsSpace(Head(s))
         THEN <<32>> \o CollapseSpaces(LStrip(s))
         ELSE <<Head(s)>> \o CollapseSpaces(Tail(s))

\* The speaker labels of the first re.sub of _clean_response: Response:,
\* Answer:, Text:, Ganesha:, and the seven labels in Indian scripts.
ResponseLabels ==
    { <<82, 101, 115, 112, 111, 110, 115, 101, 58>>,
      <<65, 110, 115, 119, 101, 114, 58>>,
      <<84, 101, 120, 116, 58>>,
      <<71, 97, 110, 101, 115, 104, 97, 58>>,
      <<2327, 2339, 2375, 2358, 32, 2332, 2368, 58>>,
      <<2997, 3007, 2984, 3006, 2991, 2965, 2992, 3021, 58>>,
      <<3095, 3107, 3143, 3127, 3149, 58>>,
      <<3223, 3235, 3271, 3254, 58>>,
      <<3351, 3363, 3370, 3364, 3391, 58>>,
      <<2455, 2467, 2503, 2486, 58>>,
      <<2327, 2339, 2375, 2358, 58>> }

StartsWith(s, w) == Len(s) >= Len(w) /\ SubSeq(s, 1, Len(w)) = w

\* re.sub(r'^(label|...)', '', s): the alternation takes the first label
\* that matches at the start; no label is a prefix of another except
\* the two beginning with the same word, which differ before the colon.
DropLabel(s) ==
    IF \E w \in ResponseLabels : StartsWith(s, w)
    THEN LET w == CHOOSE x \in ResponseLabels : StartsWith(s, x)
         IN  SubSeq(s, Len(w) + 1, Len(s))
    ELSE s

\* The sentence-final characters . ! ? and the two dandas.
IsTerminator(c) == c \in {46, 33, 63, 2404, 2405}

_clean_response(text0) ==
    LET text == Strip(CollapseSpaces(DropLabel(Strip(text0))))
    IN  IF text # <<>> /\ ~IsTerminator(text[Len(text)])
        THEN text \o <<46>>
        ELSE text

\* The fallbacks table of _get_fallback_response.  Each message is modelled
\* by its first 22 code points (the invocation and the first word after
\* it), which differ from language to language.
fallbacks ==
    [ en |-> <<79, 109, 32, 71, 97, 109, 32, 71, 97, 110, 97, 112, 97, 116,
               97, 121, 101, 32, 78, 97, 109, 97>>,
      hi |-> <<2384, 32, 2327, 2306, 32, 2327, 2339, 2346, 2340, 2351, 2375,
               32, 2344, 2350, 2307, 33, 32, 2350, 2376, 2306, 32, 2351>>,
      ta |-> <<2963, 2990, 3021, 32, 2965, 2990, 3021, 32, 2965, 2979, 2986,
               2980, 2991, 3015, 32, 2984, 2990, 2965, 33, 32, 2984, 3006>>,
      te |-> <<3091, 3074, 32, 3095, 3074, 32, 3095, 3107, 3114, 3108, 3119,
               3143, 32, 3112, 3118, 3075, 33, 32, 3112, 3143, 3112, 3137>>,
      kn |-> <<3219, 3202, 32, 3223, 3202, 32, 3223, 3235, 3242, 3236, 3247,
               3271, 32, 3240, 3246, 3203, 33, 32, 3240, 3262, 3240, 3265>>,
      ml |-> <<3347, 3330, 32, 3351, 3330, 32, 3351, 3363, 3370, 3364, 3375,
               3399, 32, 3368, 3374, 3331, 33, 32, 3368, 3391, 3353, 3405>>,
      bn |-> <<2451, 2478, 32, 2455, 2434, 32, 2455, 2467, 2474, 2468, 2479,
               2492, 2503, 32, 2472, 2478, 2435, 33, 32, 2438, 2478, 2495>>,
      mr |-> <<2384, 32, 2327, 2306, 32, 2327, 2339, 2346, 2340, 2351, 2375,
               32, 2344, 2350, 2307, 33, 32, 2350, 2368, 32, 2340, 2369>> ]

\* fallbacks.get(language, fallbacks["en"])
_get_fallback_response(language) ==
    IF language \in DOMAIN fallbacks THEN fallbacks[language] ELSE fallbacks["en"]

\* The prompts table of _build_prompt.  Each template is modelled by its
\* first eight code points, which differ from language to language; the
\* instruction to reply only in that language follows them in the source.
prompts ==
    [ en |-> <<89, 111, 117, 32, 97, 114, 101, 32>>,
      hi |-> <<2310, 2346, 32, 2327, 2339, 2375, 2358, 32>>,
      ta |-> <<2984, 3008, 2969, 3021, 2965, 2995, 3021, 32>>,
      te |-> <<3118, 3136, 3120, 3137, 32, 3125, 3135, 3112>>,
      kn |-> <<3240, 3264, 3253, 3265, 32, 3223, 3235, 3271>>,
      ml |-> <<3368, 3391, 3353, 3405, 3353, 3454, 32, 3351>>,
      bn |-> <<2438, 2474, 2472, 2495, 32, 2455, 2467, 2503>>,
      mr |-> <<2340, 2369, 2350, 2381, 2361, 2368, 32, 2327>> ]

\* prompts.get(language, prompts["en"]); every template ends with the
\* user's input.
_build_prompt(user_input, language) ==
    (IF language \in DOMAIN prompts THEN prompts[language] ELSE prompts["en"])
        \o user_input

\* What the generation engine does on one call: the API key is missing,
\* the status is not 200, the body has no candidate with content and parts,
\* an exception leaves the try block (network error, timeout, empty parts),
\* or a candidate arrives with its text.
GenKinds == {"no_key", "status", "no_candidates", "exception", "ok"}

\* get_response under engine outcome gen = [kind, text].
get_response(user_input, language, gen) ==
    IF gen.kind = "ok" THEN _clean_response(gen.text)
    ELSE _get_fallback_response(language)

(***************************************************************************)
(* TTSService: _clean_text_for_tts, generate_speech                        *)
(***************************************************************************)

\* str.replace(old, new), left to right, non-overlapping.
RECURSIVE Replace(_, _, _)
Replace(s, old, new) ==
    IF Len(s) < Len(old) THEN s
    ELSE IF SubSeq(s, 1, Len(old)) = old
         THEN new \o Replace(SubSeq(s, Len(old) + 1, Len(s)), old, new)
         ELSE <<Head(s)>> \o Replace(Tail(s), old, new)

\* The replacements dict of the Hindi branch, in insertion order: okay, ok,
\* yes, no, please, thank you, sorry.
HindiReplacements ==
    << <<<<111, 107, 97, 121>>, <<2336, 2368, 2325, 32, 2361, 2376>>>>,
       <<<<111, 107>>, <<2336, 2368, 2325>>>>,
       <<<<121, 101, 115>>, <<2361, 2366, 2305>>>>,
       <<<<110, 111>>, <<2344, 2361, 2368, 2306>>>>,
       <<<<112, 108, 101, 97, 115, 101>>, <<2325, 2371, 2346, 2351, 2366>>>>,
       <<<<116, 104, 97, 110, 107, 32, 121, 111, 117>>,
         <<2343, 2344, 2381, 2351, 2357, 2366, 2342>>>>,
       <<<<115, 111, 114, 114, 121>>,
         <<2350, 2366, 2347, 2364, 32, 2325, 2352, 2375, 2306>>>> >>

RECURSIVE ReplaceAll(_, _)
ReplaceAll(s, k) ==
    IF k > Len(HindiReplacements) THEN s
    ELSE ReplaceAll(Replace(s, HindiReplacements[k][1], HindiReplacements[k][2]),
                    k + 1)

\* " ".join(text.split()), the Hindi replacements, then strip().  The two
\* regular expressions remove URLs and e-mail addresses only; the texts of
\* this model contain neither "http" nor "@".
_clean_text_for_tts(text, language) ==
    LET joined == Strip(CollapseSpaces(text))
    IN  Strip(IF language = "hi" THEN ReplaceAll(joined, 1) ELSE joined)

\* What the synthesis engine does on one call: gTTS fails to save, the
\* audio enhancement (with both of its fallbacks) fails, or all goes well.
TtsEngines == {"ok", "gtts_fails", "enhance_fails"}

\* The language generate_speech synthesizes in (tts_lang).
TtsVoice(language) == IF language \notin language_mapping THEN "en" ELSE language

\* generate_speech's return value.
generate_speech(text, language, engine) ==
    LET cleaned_text == _clean_text_for_tts(text, TtsVoice(language))
    IN  IF Strip(cleaned_text) = <<>> THEN FALSE
        ELSE engine = "ok"

\* The temporary MP3 of one generate_speech call: whether
\* NamedTemporaryFile(delete=False) created it and whether os.unlink
\* removed it.
NoTempFile == [created |-> FALSE, deleted |-> FALSE]

\* The empty-text ValueError is raised before the file is made; os.unlink
\* is the last statement of the try block, reached only when tts.save and
\* _enhance_audio both returned, and the except clause removes nothing.
generate_speech_temp_file(text, language, engine) ==
    LET cleaned_text == _clean_text_for_tts(text, TtsVoice(language))
    IN  IF Strip(cleaned_text) = <<>> THEN NoTempFile
        ELSE [created |-> TRUE, deleted |-> engine = "ok"]

\* The state the services share between exchanges, as startup_event leaves
\* it: the allowlist, the two tables of TTSService and the three
\* _initialized flags.  The prompt and fallback tables are locals built
\* anew by each call.
Startup ==
    [SUPPORTED_LANGUAGES |-> SUPPORTED_LANGUAGES,
     language_mapping    |-> [l \in language_mapping |-> l],
     tld_mapping         |-> [l \in language_mapping |-> "co.in"],
     asr_initialized     |-> TRUE,
     llm_initialized     |-> TRUE,
     tts_initialized     |-> TRUE]

\* A plausible slip: the unsupported language is entered in the table
\* instead of being replaced in the local variable.
SharedAfterSpeechMemoized(sh, language) ==
    IF language \notin DOMAIN sh.language_mapping
    THEN [sh EXCEPT !.language_mapping = @ @@ (language :> "en")]
    ELSE sh

\* What generate_speech writes to the shared state: nothing; for an
\* unsupported language it assigns "en" to its own parameter.
SharedAfterSpeech(sh, language) == sh

(***************************************************************************)
(* ASRService.transcribe_audio                                             *)
(***************************************************************************)

\* What the transcription engine does on one call: model.transcribe throws,
\* or yields segments whose joined text is text, with info.language.
Raised == [raised |-> TRUE, text |-> <<>>, language |-> "None"]

\* A plausible slip: the no-speech test without strip(), and the text
\* returned as joined.
TranscribeUnstripped(engine, lib, det) ==
    IF engine.kind = "fails" \/ engine.text = <<>> THEN Raised
    ELSE [raised |-> FALSE, text |-> engine.text,
          language |-> _enhance_language_detection(
                           engine.text, engine.language, NoProbs, NoProbs, lib, det)]

\* transcribe_audio: every exception of the try block, the ValueError of
\* the no-speech test included, leaves as Exception("Speech recognition
\* error: ...").
transcribe_audio(engine, lib, det) ==
    IF engine.kind = "fails" \/ Strip(engine.text) = <<>> THEN Raised
    ELSE [raised |-> FALSE, text |-> Strip(engine.text),
          language |-> _enhance_language_detection(
                           engine.text, engine.language, NoProbs, NoProbs, lib, det)]

(***************************************************************************)
(* The exchange handlers of main.py                                        *)
(***************************************************************************)

VARIABLES
    pc,                \* the handler's position: the stage it runs next
    endpoint,          \* "voice_chat", "text_chat", or "None" between exchanges
    language,          \* the caller's language form field
    asr_outcome,       \* what transcription did: "None", "ok", "no_speech", "failed"
    user_text,         \* the transcript, or the text of a text exchange
    detected_language, \* the handler's detected_language
    gen_kind,          \* what the generation engine did, "None" before the call
    llm_language,      \* the language argument of get_response
    response_text,     \* the handler's response_text
    tts_language,      \* the language argument of generate_speech
    tts_success,       \* generate_speech's return value: "None", "True", "False"
    calls,             \* how often each service was invoked in this exchange
    stages,            \* the stages entered in this exchange, in order
    reply,             \* what the caller receives
    prompt,            \* the prompt get_response built in this exchange
    temp_file,         \* the temporary MP3 of this exchange's generate_speech
    shared,            \* the state the services share between exchanges
    call,              \* the call of a language function under test
    result,            \* the language it returned
    translit,          \* what _transliterate_if_needed returned
    running,           \* the exchange the event loop's thread executes, 0 if none
    tasks              \* the handler coroutines of the concurrent exchanges

vars == <<pc, endpoint, language, asr_outcome, user_text, detected_language,
          gen_kind, llm_language, response_text, tts_language, tts_success,
          calls, stages, reply, prompt, temp_file, shared, call, result,
          translit, running, tasks>>

exchange_vars == <<pc, endpoint, language, asr_outcome, user_text,
                   detected_language, gen_kind, llm_language, response_text,
                   tts_language, tts_success, calls, stages, reply, prompt,
                   temp_file>>

lang_vars == <<call, result, translit>>

loop_vars == <<running, tasks>>

\* The recognizer's info.language: a supported code, an unsupported one,
\* or none.
Hints == SUPPORTED_LANGUAGES \cup {"fr", "None"}

\* The language form field: absent, empty, supported codes, an unsupported one.
LanguageParams == {"None", "", "hi", "ta", "fr"}

\* Joined segment texts: empty, blank, "hi", " hi", two Tamil letters,
\* the Devanagari word ka + aa.
Transcripts == {<<>>, <<32>>, <<104, 105>>, <<32, 104, 105>>, <<2965, 2990>>, <<2325, 2366>>}

\* Texts of a text exchange.
TextInputs == {<<>>, <<32>>, <<104, 105>>, <<2965, 2990>>, <<2325, 2366>>}

\* Texts of the first candidate: empty, blank, the bare label "Text:", "Om",
\* two Tamil letters, a Devanagari letter and a danda.
GeneratedTexts ==
    {<<>>, <<32>>, <<84, 101, 120, 116, 58>>, <<79, 109>>, <<2965, 2990>>, <<2325, 2404>>}

NoReply ==
    [status |-> 0, detail |-> "None", response |-> <<>>,
     detected_language |-> "None", response_language |-> "None",
     audio_url |-> "None"]

\* raise HTTPException(status_code=status, detail=detail)
HttpError(status, detail) == [NoReply EXCEPT !.status = status, !.detail = detail]

\* The JSON body of a successful exchange; audio_url is "url" or "None".
Body(resp, detected, url) ==
    [status |-> 200, detail |-> "None", response |-> resp,
     detected_language |-> detected, response_language |-> detected,
     audio_url |-> url]

NoCalls == [transcribe_audio |-> 0, get_response |-> 0, generate_speech |-> 0]

NoCall == [fn |-> "None", text |-> <<>>, whisper_lang |-> "None",
           whisper_probs |-> NoProbs, langdetect_probs |-> NoProbs,
           lib |-> "identity", det |-> "RAISED"]

ExchangeInit ==
    /\ pc = "idle"
    /\ endpoint = "None"
    /\ language = "None"
    /\ asr_outcome = "None"
    /\ user_text = <<>>
    /\ detected_language = "None"
    /\ gen_kind = "None"
    /\ llm_language = "None"
    /\ response_text = <<>>
    /\ tts_language = "None"
    /\ tts_success = "None"
    /\ calls = NoCalls
    /\ stages = <<>>
    /\ reply = NoReply
    /\ prompt = <<>>
    /\ temp_file = NoTempFile

\* Exchanges the server holds at once.
NumExchanges == 3

NoTranslit == [returned |-> FALSE, text |-> <<>>]

NoTask == [endpoint |-> "None", pc |-> "idle"]

NoTasks == [e \in 1..NumExchanges |-> NoTask]

LangInit == call = NoCall /\ result = "None" /\ translit = NoTranslit

LoopInit == running = 0 /\ tasks = NoTasks

Init == ExchangeInit /\ shared = Startup /\ LangInit /\ LoopInit

\* A plausible slip: a failed synthesis sends the handler back to
\* generation.
StageAfterRetry(ep, stage) ==
    IF stage = "request" THEN (IF ep = "voice_chat" THEN "transcribe" ELSE "generate")
    ELSE IF stage = "transcribe" THEN "generate"
    ELSE IF stage = "generate" THEN "synthesize"
    ELSE "generate"

\* The order of the statements of the two handlers: the position that
\* follows a stage that returned.
StageAfter(ep, stage) ==
    IF stage = "request" THEN (IF ep = "voice_chat" THEN "transcribe" ELSE "generate")
    ELSE IF stage = "transcribe" THEN "generate"
    ELSE IF stage = "generate" THEN "synthesize"
    ELSE "done"

\* voice_chat, lines 136-152: the content type test and the upload's save.
VoiceChatRequest(upload, lang) ==
    /\ pc = "idle"
    /\ endpoint' = "voice_chat"
    /\ language' = lang
    /\ IF upload = "not_audio"
       THEN /\ pc' = "done"
            /\ reply' = HttpError(400, "Please upload a valid audio file")
       ELSE IF upload = "save_fails"
       THEN /\ pc' = "done"
            /\ reply' = HttpError(500, "Internal error")
       ELSE /\ pc' = StageAfter("voice_chat", "request")
            /\ reply' = reply
    /\ UNCHANGED <<asr_outcome, user_text, detected_language, gen_kind,
                   llm_language, response_text, tts_language, tts_success,
                   calls, stages, prompt, temp_file, shared, lang_vars,
                   loop_vars>>

\* voice_chat, lines 154-161: transcribe_audio and the empty-text test.
Transcribe(engine, lib, det) ==
    /\ pc = "transcribe"
    /\ LET r == transcribe_audio(engine, lib, det)
       IN  /\ calls' = [calls EXCEPT !.transcribe_audio = @ + 1]
           /\ stages' = Append(stages, "transcription")
           /\ asr_outcome' = IF engine.kind = "fails" THEN "failed"
                             ELSE IF Strip(engine.text) = <<>> THEN "no_speech"
                             ELSE "ok"
           /\ IF r.raised
              THEN \* except Exception: HTTPException(500)
                   /\ pc' = "done"
                   /\ reply' = HttpError(500, "Internal error")
                   /\ UNCHANGED <<user_text, detected_language>>
              ELSE IF r.text = <<>>
              THEN \* if not user_text: HTTPException(400), re-raised
                   /\ pc' = "done"
                   /\ reply' = HttpError(400, "Could not understand the audio")
                   /\ UNCHANGED <<user_text, detected_language>>
              ELSE /\ pc' = StageAfter(endpoint, "transcribe")
                   /\ user_text' = r.text
                   /\ detected_language' = r.language
                   /\ reply' = reply
    /\ UNCHANGED <<endpoint, language, gen_kind, llm_language, response_text,
                   tts_language, tts_success, prompt, temp_file, shared,
                   lang_vars, loop_vars>>

\* The truth value of the language form field in `language or ...`.
Falsy(lang) == lang \in {"None", ""}

\* text_chat, lines 221-229: the blank-text test, whose HTTPException(400)
\* is caught by the handler's own `except Exception` and leaves as 500, and
\* the choice of detected_language.
TextChatRequest(text, lang) ==
    /\ pc = "idle"
    /\ endpoint' = "text_chat"
    /\ language' = lang
    /\ user_text' = text
    /\ IF Strip(text) = <<>>
       THEN /\ pc' = "done"
            /\ reply' = HttpError(500, "Internal error")
            /\ detected_language' = detected_language
       ELSE /\ pc' = StageAfter("text_chat", "request")
            /\ reply' = reply
            /\ detected_language' =
                   IF Falsy(lang) THEN detect_language_fast(text) ELSE lang
    /\ UNCHANGED <<asr_outcome, gen_kind, llm_language, response_text,
                   tts_language, tts_success, calls, stages, prompt,
                   temp_file, shared, lang_vars, loop_vars>>

\* Both handlers: response_text = await llm_service.get_response(...).
Generate(gen) ==
    /\ pc = "generate"
    /\ calls' = [calls EXCEPT !.get_response = @ + 1]
    /\ stages' = Append(stages, "generation")
    /\ gen_kind' = gen.kind
    /\ llm_language' = detected_language
    /\ prompt' = _build_prompt(user_text, detected_language)
    /\ response_text' = get_response(user_text, detected_language, gen)
    /\ pc' = StageAfter(endpoint, "generate")
    /\ UNCHANGED <<endpoint, language, asr_outcome, user_text,
                   detected_language, tts_language, tts_success, reply,
                   temp_file, shared, lang_vars, loop_vars>>

\* Both handlers: generate_speech and the response.  voice_chat calls it
\* directly; text_chat awaits its bool, which raises TypeError after the
\* call has run, and the handler's except clause answers 500.
Synthesize(engine) ==
    /\ pc = "synthesize"
    /\ calls' = [calls EXCEPT !.generate_speech = @ + 1]
    /\ stages' = Append(stages, "synthesis")
    /\ tts_language' = detected_language
    /\ LET ok == generate_speech(response_text, detected_language, engine)
       IN  /\ tts_success' = IF ok THEN "True" ELSE "False"
           /\ reply' = IF endpoint = "text_chat"
                       THEN HttpError(500, "Internal error")
                       ELSE Body(response_text, detected_language,
                                 IF ok THEN "url" ELSE "None")
    /\ temp_file' = generate_speech_temp_file(response_text, detected_language, engine)
    /\ shared' = SharedAfterSpeech(shared, detected_language)
    /\ pc' = StageAfter(endpoint, "synthesize")
    /\ UNCHANGED <<endpoint, language, asr_outcome, user_text,
                   detected_language, gen_kind, llm_language, response_text,
                   prompt, lang_vars, loop_vars>>

\* The next request: nothing of the finished exchange is kept.
NextExchange ==
    /\ pc = "done"
    /\ pc' = "idle"
    /\ endpoint' = "None"
    /\ language' = "None"
    /\ asr_outcome' = "None"
    /\ user_text' = <<>>
    /\ detected_language' = "None"
    /\ gen_kind' = "None"
    /\ llm_language' = "None"
    /\ response_text' = <<>>
    /\ tts_language' = "None"
    /\ tts_success' = "None"
    /\ calls' = NoCalls
    /\ stages' = <<>>
    /\ reply' = NoReply
    /\ prompt' = <<>>
    /\ temp_file' = NoTempFile
    /\ UNCHANGED <<shared, lang_vars, loop_vars>>

Engines ==
    [kind : {"ok"}, text : Transcripts, language : Hints]
        \cup {[kind |-> "fails", text |-> <<>>, language |-> "None"]}

Generations ==
    [kind : {"ok"}, text : GeneratedTexts]
        \cup [kind : GenKinds \ {"ok"}, text : {<<>>}]

Next ==
    \/ \E upload \in {"not_audio", "save_fails", "ok"}, lang \in LanguageParams :
           VoiceChatRequest(upload, lang)
    \/ \E engine \in Engines, lib \in LibModes, det \in DetectVerdicts :
           Transcribe(engine, lib, det)
    \/ \E text \in TextInputs, lang \in LanguageParams : TextChatRequest(text, lang)
    \/ \E gen \in Generations : Generate(gen)
    \/ \E engine \in TtsEngines : Synthesize(engine)
    \/ NextExchange

Spec == Init /\ [][Next]_vars

(***************************************************************************)
(* The language functions on their own: one call on drawn inputs           *)
(***************************************************************************)

\* All sequences over S of length at most n.
SeqsUpTo(S, n) == UNION {[1..k -> S] : k \in 0..n}

\* Characters of the texts given to detect_language_fast: A, a, space,
\* Devanagari ka, aa, ca, Tamil ka, Bengali ka, Telugu ka, Kannada ka,
\* Malayalam ka.
Alphabet == {65, 97, 32, 2325, 2366, 2330, 2965, 2453, 3093, 3221, 3349}

\* Texts with marker words of the Devanagari branch: one marker, a Marathi
\* and a Hindi marker in either order, a Marathi marker and a Tamil letter.
MarkerTexts ==
    HindiMarkers \cup MarathiMarkers
        \cup {m \o <<32>> \o h : m \in MarathiMarkers, h \in HindiMarkers}
        \cup {h \o <<32>> \o m : m \in MarathiMarkers, h \in HindiMarkers}
        \cup {<<2965>> \o m : m \in MarathiMarkers}

\* Characters of the texts given to _transliterate_if_needed: a, b, space.
TranslitAlphabet == {97, 98, 32}

\* Characters of the transcripts given to _enhance_language_detection.
AsrAlphabet == {97, 32, 2325, 2965}

EnhanceCalls ==
    [fn : {"_enhance_language_detection"}, text : SeqsUpTo(AsrAlphabet, MaxLen),
     whisper_lang : Hints, whisper_probs : ProbDicts,
     langdetect_probs : ProbDicts, lib : LibModes, det : DetectVerdicts]

FastCalls ==
    {[NoCall EXCEPT !.fn = "detect_language_fast", !.text = t] :
        t \in SeqsUpTo(Alphabet, MaxLen) \cup MarkerTexts}

TranslitCalls ==
    {[NoCall EXCEPT !.fn = "_transliterate_if_needed", !.text = t, !.lib = l] :
        t \in SeqsUpTo(TranslitAlphabet, MaxLen + 1), l \in LibModes}

InitLang ==
    /\ ExchangeInit
    /\ shared = Startup
    /\ LoopInit
    /\ call \in EnhanceCalls \cup FastCalls \cup TranslitCalls
    /\ result = "None"
    /\ translit = NoTranslit

CallEnhance ==
    /\ call.fn = "_enhance_language_detection"
    /\ result = "None"
    /\ result' = _enhance_language_detection(
                     call.text, call.whisper_lang, call.whisper_probs,
                     call.langdetect_probs, call.lib, call.det)
    /\ UNCHANGED <<exchange_vars, shared, call, translit, loop_vars>>

CallDetectFast ==
    /\ call.fn = "detect_language_fast"
    /\ result = "None"
    /\ result' = detect_language_fast(call.text)
    /\ UNCHANGED <<exchange_vars, shared, call, translit, loop_vars>>

CallTransliterate ==
    /\ call.fn = "_transliterate_if_needed"
    /\ ~translit.returned
    /\ translit' = [returned |-> TRUE,
                    text |-> _transliterate_if_needed(call.text, call.lib)]
    /\ UNCHANGED <<exchange_vars, shared, call, result, loop_vars>>

NextLang == CallEnhance \/ CallDetectFast \/ CallTransliterate

SpecLang == InitLang /\ [][NextLang]_vars

(***************************************************************************)
(* The handlers as coroutines of one event loop                            *)
(***************************************************************************)

\* Both handlers are `async def` and uvicorn.run starts one process with one
\* event loop, so a handler has the loop's thread from one await that
\* suspends to the next.  audio.read() and client.post() are the awaits
\* that suspend; transcribe_audio and generate_speech are plain calls made
\* on the loop's thread, with no executor between.

\* The loop starts the handler of a request, which runs to its first
\* await: a rejected upload or blank text ends it, voice_chat suspends in
\* audio.read(), text_chat in get_response's client.post().
AcceptRequest(e, ep, valid) ==
    /\ running = 0
    /\ tasks[e].pc = "idle"
    /\ tasks' = [tasks EXCEPT ![e] =
                    [endpoint |-> ep,
                     pc |-> IF ~valid THEN "done"
                            ELSE IF ep = "voice_chat" THEN "reading"
                            ELSE "generating"]]
    /\ UNCHANGED <<running, exchange_vars, shared, lang_vars>>

\* voice_chat resumes after audio.read() and calls transcribe_audio.
EnterTranscribe(e) ==
    /\ running = 0
    /\ tasks[e].pc = "reading"
    /\ running' = e
    /\ tasks' = [tasks EXCEPT ![e].pc = "transcribing"]
    /\ UNCHANGED <<exchange_vars, shared, lang_vars>>

\* transcribe_audio returns or raises; the handler goes on to its next
\* await, in get_response, or answers with an error.
LeaveTranscribe(e, ok) ==
    /\ running = e
    /\ tasks[e].pc = "transcribing"
    /\ running' = 0
    /\ tasks' = [tasks EXCEPT ![e].pc = IF ok THEN "generating" ELSE "done"]
    /\ UNCHANGED <<exchange_vars, shared, lang_vars>>

\* The handler resumes after get_response and calls generate_speech.
EnterSynthesize(e) ==
    /\ running = 0
    /\ tasks[e].pc = "generating"
    /\ running' = e
    /\ tasks' = [tasks EXCEPT ![e].pc = "synthesizing"]
    /\ UNCHANGED <<exchange_vars, shared, lang_vars>>

\* generate_speech returns and the handler returns its response.
LeaveSynthesize(e) ==
    /\ running = e
    /\ tasks[e].pc = "synthesizing"
    /\ running' = 0
    /\ tasks' = [tasks EXCEPT ![e].pc = "done"]
    /\ UNCHANGED <<exchange_vars, shared, lang_vars>>

\* The response is sent and the exchange is over.
SendResponse(e) ==
    /\ running = 0
    /\ tasks[e].pc = "done"
    /\ tasks' = [tasks EXCEPT ![e] = NoTask]
    /\ UNCHANGED <<running, exchange_vars, shared, lang_vars>>

\* A step of exchange e.
TaskStep(e) ==
    \/ \E ep \in {"voice_chat", "text_chat"}, valid \in BOOLEAN :
           AcceptRequest(e, ep, valid)
    \/ EnterTranscribe(e)
    \/ \E ok \in BOOLEAN : LeaveTranscribe(e, ok)
    \/ EnterSynthesize(e)
    \/ LeaveSynthesize(e)
    \/ SendResponse(e)

NextLoop == \E e \in 1..NumExchanges : TaskStep(e)

SpecLoop == Init /\ [][NextLoop]_vars

(***************************************************************************)
(* Properties                                                              *)
(***************************************************************************)

\* C1: language resolution is closed: whatever the text, the hint, the
\* probability dicts, the conversion library and the statistical detector
\* do (throwing included), _enhance_language_detection and
\* detect_language_fast return, and what they return is a key of
\* settings.SUPPORTED_LANGUAGES.
C1_LanguageClosure ==
    result # "None" => result \in SUPPORTED_LANGUAGES

\* C1 witness: an unsupported hint, a conversion library that throws and a
\* detector that throws, and the call has returned the default.
C1_Witness ==
    /\ call.fn = "_enhance_language_detection"
    /\ call.whisper_lang = "fr"
    /\ call.lib = "raise"
    /\ call.det = "RAISED"
    /\ ~Truthy(call.whisper_probs)
    /\ ~Truthy(call.langdetect_probs)
    /\ result = "en"

\* The language a text is entirely in the script of: every letter of the
\* text lies in one of the blocks that detect_language_fast gives to a
\* single language (Tamil, Telugu, Kannada, Malayalam, Bengali); ASCII
\* punctuation, whitespace and the dandas belong to no script.  "None" for
\* any other text.
IsNeutral(c) == c < 65 \/ c \in {2404, 2405}

EntirelyIn(s, lo, hi) ==
    /\ \E i \in 1..Len(s) : s[i] >= lo /\ s[i] <= hi
    /\ \A i \in 1..Len(s) : (s[i] >= lo /\ s[i] <= hi) \/ IsNeutral(s[i])

ScriptLanguage(s) ==
    IF EntirelyIn(s, 2944, 3071) THEN "ta"
    ELSE IF EntirelyIn(s, 3072, 3199) THEN "te"
    ELSE IF EntirelyIn(s, 3200, 3327) THEN "kn"
    ELSE IF EntirelyIn(s, 3328, 3455) THEN "ml"
    ELSE IF EntirelyIn(s, 2432, 2559) THEN "bn"
    ELSE "None"

\* C2 (as claimed; the code gives the hint precedence): a transcript that
\* is entirely in one language's script resolves to that language whatever
\* the recognizer's hint.
C2_ScriptPrecedence ==
    (endpoint = "voice_chat" /\ asr_outcome = "ok"
        /\ ScriptLanguage(user_text) # "None")
    => detected_language = ScriptLanguage(user_text)

\* C3 (as claimed; the code passes the input's language): when the response
\* text is entirely in the script of a language, that language is the one
\* handed to generate_speech.
C3_SynthesisFollowsResponse ==
    (calls.generate_speech > 0 /\ ScriptLanguage(response_text) # "None")
    => tts_language = ScriptLanguage(response_text)

\* C4 (as claimed; text_chat answers 500): an exchange whose synthesis
\* failed ends with a successful response that carries the response text
\* and no audio.
C4_SynthesisFailureNotFatal ==
    (pc = "done" /\ tts_success = "False")
    => /\ reply.status = 200
       /\ reply.response = response_text
       /\ reply.audio_url = "None"

\* C5 (as claimed; an empty candidate text is returned as it is): the
\* string get_response returns is never empty.
C5_ResponseNeverEmpty ==
    calls.get_response > 0 => response_text # <<>>

StageRank(stage) ==
    IF stage = "transcription" THEN 1 ELSE IF stage = "generation" THEN 2 ELSE 3

IsError(r) == r.status \in {400, 500} /\ r.response = <<>> /\ r.audio_url = "None"

IsSynthesized(r) == r.status = 200 /\ r.audio_url = "url"

IsDegraded(r) == r.status = 200 /\ r.audio_url = "None"

\* The number of terminal outcomes a reply is.
Outcomes(r) ==
    Cardinality({o \in {"Error", "Synthesized", "Degraded"} :
                    \/ o = "Error" /\ IsError(r)
                    \/ o = "Synthesized" /\ IsSynthesized(r)
                    \/ o = "Degraded" /\ IsDegraded(r)})

C6_Forward ==
    /\ \A i, j \in 1..Len(stages) :
           i < j => StageRank(stages[i]) < StageRank(stages[j])
    /\ pc = "done" => Outcomes(reply) = 1
    /\ pc # "done" => reply = NoReply

\* The stage a handler position runs; each stage action is guarded by its
\* position alone, so a handler at one of these positions can take its
\* step whatever the engine does.
StageAt(position) ==
    IF position = "transcribe" THEN "transcription"
    ELSE IF position = "generate" THEN "generation"
    ELSE IF position = "synthesize" THEN "synthesis"
    ELSE "None"

\* C6: the stages of an exchange are entered in the order transcription,
\* generation, synthesis, none of them twice; a finished exchange is
\* exactly one of Error, Synthesized, Degraded, an unfinished one has no
\* outcome; and an unfinished exchange stands before a stage later than
\* every stage it has entered, so that it reaches an outcome after at
\* most three stage steps.
C6_ForwardAndTerminates ==
    /\ C6_Forward
    /\ pc \in {"idle", "transcribe", "generate", "synthesize", "done"}
    /\ pc \notin {"idle", "done"} =>
           \A i \in 1..Len(stages) : StageRank(stages[i]) < StageRank(StageAt(pc))
    /\ pc = "idle" => stages = <<>>

\* C6 witness: a voice exchange went through the three stages and ended
\* Degraded.
C6_Witness ==
    /\ pc = "done"
    /\ stages = <<"transcription", "generation", "synthesis">>
    /\ IsDegraded(reply)

\* C7: in a voice exchange whose transcription failed or found no speech,
\* get_response and generate_speech are not invoked and the exchange has
\* ended in an error.
C7_TranscriptionFailureStops ==
    (endpoint = "voice_chat" /\ asr_outcome \in {"failed", "no_speech"})
    => /\ calls.get_response = 0
       /\ calls.generate_speech = 0
       /\ pc = "done"
       /\ IsError(reply)

\* C7 witness: a blank transcript, and the exchange ended in an error.
C7_Witness ==
    /\ endpoint = "voice_chat"
    /\ asr_outcome = "no_speech"
    /\ calls.transcribe_audio = 1
    /\ pc = "done"
    /\ IsError(reply)

\* The language whose fallback message a text is; "None" for other texts.
WrittenIn(text) ==
    IF \E l \in DOMAIN fallbacks : fallbacks[l] = text
    THEN CHOOSE l \in DOMAIN fallbacks : fallbacks[l] = text
    ELSE "None"

\* C8 (as claimed; the table has no message for gu, pa, or, as, ur): the
\* text substituted on a generation failure is the fallback message of the
\* language handed to get_response, for every supported language.
C8_FallbackInResolvedLanguage ==
    (gen_kind \notin {"None", "ok"} /\ llm_language \in SUPPORTED_LANGUAGES)
    => WrittenIn(response_text) = llm_language

\* C9 (as claimed; text_chat takes the caller's language unchecked): every
\* language handed to get_response or generate_speech or returned to the
\* caller is a key of settings.SUPPORTED_LANGUAGES.
C9_PipelineClosure ==
    /\ llm_language \in SUPPORTED_LANGUAGES \cup {"None"}
    /\ tts_language \in SUPPORTED_LANGUAGES \cup {"None"}
    /\ reply.detected_language \in SUPPORTED_LANGUAGES \cup {"None"}
    /\ reply.response_language \in SUPPORTED_LANGUAGES \cup {"None"}

\* C10 (as claimed; transcribe_audio raises and the handler answers 500):
\* a voice exchange whose audio has no speech ends with the rejection 400,
\* 'Could not understand the audio'.
C10_NoSpeechRejected ==
    (endpoint = "voice_chat" /\ asr_outcome = "no_speech" /\ pc = "done")
    => /\ reply.status = 400
       /\ reply.detail = "Could not understand the audio"

\* The language the recognizer reports in a call: the most probable key of
\* whisper_probs when the dict is given and max() can order it, and
\* whisper_lang otherwise (transcribe_audio gives whisper_lang alone).
ReportedLanguage(c) ==
    IF Truthy(c.whisper_probs) /\ ~MaxRaises(c.whisper_probs)
    THEN BestKey(c.whisper_probs)
    ELSE c.whisper_lang

\* The verdict of the statistical stage in a call: "RAISED", or a code.
StatisticalVerdict(c) ==
    IF Truthy(c.langdetect_probs)
    THEN IF MaxRaises(c.langdetect_probs) THEN "RAISED"
         ELSE BestKey(c.langdetect_probs)
    ELSE c.det

\* text has no character in any of the six blocks detect_language_fast
\* knows.
NoKnownScript(text) ==
    /\ ~AnyInRange(text, 2304, 2431)
    /\ ~AnyInRange(text, 2944, 3071)
    /\ ~AnyInRange(text, 3072, 3199)
    /\ ~AnyInRange(text, 3200, 3327)
    /\ ~AnyInRange(text, 3328, 3455)
    /\ ~AnyInRange(text, 2432, 2559)

\* C11: when the language the recognizer reports is a key of
\* settings.SUPPORTED_LANGUAGES, _enhance_language_detection returns exactly
\* that code, whatever the statistical detector says; a reported language
\* outside the allowlist is never returned.
C11_SupportedHintWins ==
    (call.fn = "_enhance_language_detection" /\ result # "None")
    => /\ ReportedLanguage(call) \in SUPPORTED_LANGUAGES
              => result = ReportedLanguage(call)
       /\ ReportedLanguage(call) \notin SUPPORTED_LANGUAGES
              => result # ReportedLanguage(call)
       /\ call.whisper_lang \notin SUPPORTED_LANGUAGES
              => result # call.whisper_lang

\* C11 witness: the recognizer reported Gujarati, the detector said Urdu,
\* and the call returned Gujarati.
C11_Witness ==
    /\ call.fn = "_enhance_language_detection"
    /\ call.whisper_lang = "gu"
    /\ ~Truthy(call.whisper_probs)
    /\ ~Truthy(call.langdetect_probs)
    /\ call.det = "ur"
    /\ result = "gu"

\* C12: with no reported language in the allowlist and a statistical stage
\* that throws or answers outside the allowlist,
\* _enhance_language_detection returns 'en'; detect_language_fast returns
\* 'en' for every text without a character of a known script block.
C12_FallbackIsEnglish ==
    /\ ( /\ call.fn = "_enhance_language_detection"
         /\ result # "None"
         /\ ReportedLanguage(call) \notin SUPPORTED_LANGUAGES
         /\ call.whisper_lang \notin SUPPORTED_LANGUAGES
         /\ StatisticalVerdict(call) \notin SUPPORTED_LANGUAGES )
       => result = "en"
    /\ ( /\ call.fn = "detect_language_fast"
         /\ result # "None"
         /\ NoKnownScript(call.text) )
       => result = "en"

\* C12 witness: a Latin transcript, no reported language, a detector that
\* answers French, and the call returned 'en'.
C12_Witness ==
    /\ call.fn = "_enhance_language_detection"
    /\ call.text = <<97, 97>>
    /\ call.whisper_lang = "None"
    /\ ~Truthy(call.whisper_probs)
    /\ ~Truthy(call.langdetect_probs)
    /\ call.det = "fr"
    /\ result = "en"

\* The language whose prompt template a prompt begins with.
PromptLanguage(p) ==
    IF \E l \in DOMAIN prompts : StartsWith(p, prompts[l])
    THEN CHOOSE l \in DOMAIN prompts : StartsWith(p, prompts[l])
    ELSE "None"

\* C13 (as claimed; the table has no template for gu, pa, or, as, ur): for
\* every supported language handed to get_response, the prompt sent to the
\* generation engine is the template that asks for a reply in that
\* language only.
C13_PromptInResolvedLanguage ==
    (gen_kind \in {"ok", "status", "no_candidates"}
        /\ llm_language \in SUPPORTED_LANGUAGES)
    => PromptLanguage(prompt) = llm_language

\* C14 (as claimed; both stages are called on the event loop's thread):
\* while one exchange is inside transcribe_audio or generate_speech, every
\* other exchange can take a step.
C14_OthersProgress ==
    \A e \in 1..NumExchanges, f \in 1..NumExchanges :
        (e # f /\ tasks[e].pc \in {"transcribing", "synthesizing"})
        => ENABLED TaskStep(f)

ScriptPriority ==
    << [lo |-> 2304, hi |-> 2431, langs |-> {"hi", "mr"}],
       [lo |-> 2944, hi |-> 3071, langs |-> {"ta"}],
       [lo |-> 3072, hi |-> 3199, langs |-> {"te"}],
       [lo |-> 3200, hi |-> 3327, langs |-> {"kn"}],
       [lo |-> 3328, hi |-> 3455, langs |-> {"ml"}],
       [lo |-> 2432, hi |-> 2559, langs |-> {"bn"}] >>

\* The places in ScriptPriority of the scripts a text has a character of.
ScriptsIn(text) ==
    {k \in DOMAIN ScriptPriority :
        AnyInRange(text, ScriptPriority[k].lo, ScriptPriority[k].hi)}

\* C17: detect_language_fast returns a language of the first script, in
\* the order Devanagari, Tamil, Telugu, Kannada, Malayalam, Bengali, of
\* which the text has a character anywhere, whatever else the text holds,
\* and 'en' only for a text with no character of these blocks.
C17_FixedScriptPriority ==
    (call.fn = "detect_language_fast" /\ result # "None")
    => LET hit == ScriptsIn(call.text)
       IN  IF hit = {} THEN result = "en"
           ELSE /\ result # "en"
                /\ result \in
                       ScriptPriority[CHOOSE k \in hit : \A j \in hit : k <= j].langs

\* C17 witness: a Bengali letter followed by a Tamil letter resolved to
\* Tamil.
C17_Witness ==
    /\ call.fn = "detect_language_fast"
    /\ call.text = <<2453, 2965>>
    /\ result = "ta"

HasHindiMarker(text) == \E w \in HindiMarkers : Contains(text, w)

HasMarathiMarker(text) == \E w \in MarathiMarkers : Contains(text, w)

\* C18: for a text with a Devanagari character, detect_language_fast
\* returns 'mr' exactly when the text contains a Marathi marker and no
\* Hindi marker, and 'hi' in every other case.
C18_HindiMarathiTieBreak ==
    (/\ call.fn = "detect_language_fast"
     /\ result # "None"
     /\ AnyInRange(call.text, 2304, 2431))
    => IF HasMarathiMarker(call.text) /\ ~HasHindiMarker(call.text)
       THEN result = "mr"
       ELSE result = "hi"

\* C18 witness: a text with a Marathi marker and then a Hindi marker
\* resolved to Hindi.
C18_Witness ==
    /\ call.fn = "detect_language_fast"
    /\ call.text = <<2330, 2366, 32, 2325, 2366>>
    /\ result = "hi"

\* The candidate conversions of a call, in the order of the scripts.
Candidates(c) ==
    [k \in DOMAIN TargetScripts |-> transliterate(c.text, TargetScripts[k], c.lib)]

\* Candidate a has at least the non-ASCII fraction of candidate b.
FractionAtLeast(a, b) == NonAscii(a) * Len(b) >= NonAscii(b) * Len(a)

\* More than 20% of the characters of a candidate are non-ASCII.
AboveThreshold(a) == 5 * NonAscii(a) > Len(a)

\* C19 (as claimed; the loop compares counts, not fractions): the call
\* returns a candidate with the highest non-ASCII fraction if that fraction
\* is above 20%, and the original text otherwise or if the library fails.
C19_HighestFraction ==
    (call.fn = "_transliterate_if_needed" /\ translit.returned)
    => IF call.lib = "raise" THEN translit.text = call.text
       ELSE LET cands == Candidates(call)
                top == {k \in DOMAIN cands :
                           \A j \in DOMAIN cands : FractionAtLeast(cands[k], cands[j])}
            IN  IF \E k \in top : AboveThreshold(cands[k])
                THEN \E k \in top : translit.text = cands[k]
                ELSE translit.text = call.text

\* C19 (amended): the call returns the first candidate, in the order of
\* the scripts, with the highest number of non-ASCII characters if that
\* number is strictly above 20% of that candidate's length, and the
\* original text otherwise; if the library fails it returns the original
\* text.
C19_HighestCount ==
    (call.fn = "_transliterate_if_needed" /\ translit.returned)
    => IF call.lib = "raise" THEN translit.text = call.text
       ELSE LET cands == Candidates(call)
                top == {k \in DOMAIN cands :
                           \A j \in DOMAIN cands : NonAscii(cands[k]) >= NonAscii(cands[j])}
                first == CHOOSE k \in top : \A j \in top : k <= j
            IN  IF NonAscii(cands[first]) > 0 /\ AboveThreshold(cands[first])
                THEN translit.text = cands[first]
                ELSE translit.text = call.text

\* C19 witness: the schemes differ, a later candidate has more non-ASCII
\* characters than the first and a lower fraction, and it was returned.
C19_Witness ==
    /\ call.fn = "_transliterate_if_needed"
    /\ call.lib = "uneven"
    /\ call.text = <<97, 97, 98>>
    /\ translit.returned
    /\ translit.text = transliterate(call.text, TargetScripts[2], "uneven")
    /\ ~FractionAtLeast(translit.text,
                        transliterate(call.text, TargetScripts[1], "uneven"))

\* C20 (as claimed; os.unlink is reached on the success path only): when
\* generate_speech has returned, the temporary MP3 it created is deleted.
C20_NoLeakedTempFile ==
    (tts_success # "None" /\ temp_file.created) => temp_file.deleted

====
